---- MODULE Spec2Model ----
(***************************************************************************)
(* Model of isl_spatial2d.h (v0.1): a uniform-grid spatial hash for 2D     *)
(* axis-aligned rectangles built on stb_ds dynamic arrays and hash maps.   *)
(*                                                                         *)
(* Reading of the source.  The translation unit as written does not        *)
(* compile: the two cell helpers are declared with (sh, e) and called with *)
(* (sh, id, xmin, xmax, ymin, ymax), and their bodies use the undeclared   *)
(* names track_overlap, ids and e.  The model reads them the way the call  *)
(* sites and the definition at line 185 do:                                *)
(*   - both helpers take (sh, id, xmin, xmax, ymin, ymax);                 *)
(*   - e is &sh->entities[id], ids is cell_ids;                            *)
(*   - the bare name track_overlap is a flag of its own, distinct from the *)
(*     struct field sh->track_overlap that isls2d_update reads.            *)
(* Coordinates are integers; the cell size is CellWidth x CellHeight and   *)
(* x * inv_cell_width is computed exactly (floor and ceiling of x/cell).   *)
(* stb_ds arrays are sequences shifted by one: C index i is TLA+ index     *)
(* i+1.  A NULL array and an empty sequence are the same value <<>>.       *)
(***************************************************************************)
EXTENDS Integers, Sequences, FiniteSets, TLC

\* ------------------------------------------------------------------ bounds
MaxEnt == 2        \* slots the entity array may grow to
CellWidth == 2     \* cell_width handed to isls2d_init
CellHeight == 2    \* cell_height handed to isls2d_init

\* Rectangles <<x, y, width, height>> the host passes:
\*   <<0,0,1,1>>   one cell;
\*   <<1,0,0,1>>   zero width, in the same cell, on the edge x = 1 of the
\*                 first;
\*   <<-1,0,3,3>>  negative origin, several columns and rows, far edge on a
\*                 cell boundary; strictly intersects the two above;
\*   <<2,2,1,1>>   away from all the others.
Rects == { <<0, 0, 1, 1>>, <<1, 0, 0, 1>>, <<-1, 0, 3, 3>>, <<2, 2, 1, 1>> }
\* user data pointers the host passes (NULL is 0)
Datas == {1}
\* ids a caller may pass: one below the array, every slot, one past the end
IdInputs == (-1)..MaxEnt
\* values the uninitialised local id of isls2d_insert may hold
GarbageIds == 0..(MaxEnt - 1)

\* ------------------------------------------------------------------ state
VARIABLES
    cells,             \* sh->cells: map key -> list of ids (absent key = no entry)
    entities,          \* sh->entities: the dense array of entity records
    reusable_ids,      \* sh->reusable_ids: the pool, last element popped first
    sh_track_overlap,  \* sh->track_overlap, the struct field
    track_overlap,     \* the free name track_overlap the cell helpers read
    last               \* the operation that produced this state and what it
                       \* did: see the actions

vars == <<cells, entities, reusable_ids, sh_track_overlap, track_overlap, last>>

\* ------------------------------------------------------------ stb_ds maps
EmptyMap == [k \in {} |-> <<>>]

hmget(m, k) == IF k \in DOMAIN m THEN m[k] ELSE <<>>

hmput(m, k, v) == [kk \in (DOMAIN m) \cup {k} |-> IF kk = k THEN v ELSE m[kk]]

hmdel(m, k) == [kk \in (DOMAIN m) \ {k} |-> m[kk]]

\* ---------------------------------------------------------- stb_ds arrays
\* arrins(a, l, v): insert v at C index l
arrins(a, l, v) == SubSeq(a, 1, l) \o <<v>> \o SubSeq(a, l + 1, Len(a))

\* arrdel(a, m): delete C index m, keeping the order
arrdel(a, m) == SubSeq(a, 1, m) \o SubSeq(a, m + 2, Len(a))

\* arrdelswap(a, i): overwrite C index i with the last element, drop the last
arrdelswap(a, i) ==
    [j \in 1..(Len(a) - 1) |-> IF j = i + 1 THEN a[Len(a)] ELSE a[j]]

\* ------------------------------------------------------------- the macros
ISLS2D_XMULT == 65536

\* v reduced to a signed half-width integer, [-XMULT/2, XMULT/2)
Wrap16(v) == ((v + ISLS2D_XMULT \div 2) % ISLS2D_XMULT) - ISLS2D_XMULT \div 2

\* x * XMULT + y in an int of 32 bits, as the build wraps it: the low half of
\* y stays, its carry (0 or -1) joins x, and x keeps its low half, signed
ISLS2D_KEY(x, y) ==
    Wrap16(x + (y \div ISLS2D_XMULT)) * ISLS2D_XMULT + (y % ISLS2D_XMULT)

isls2d_overlaps(x1, y1, w1, h1, x2, y2, w2, h2) ==
    /\ x1 + w1 > x2
    /\ x2 + w2 > x1
    /\ y1 + h1 > y2
    /\ y2 + h2 > y1

\* floorf(v * (1/cell)) and ceilf(v * (1/cell)) on exact arithmetic
isls2d__floor(v, cell) == v \div cell

isls2d__ceil(v, cell) == -((-v) \div cell)

\* -------------------------------------------------- sorted-set primitives
RECURSIVE PutSearch(_, _, _, _)
PutSearch(a, v, l, r) ==
    LET m == (l + r) \div 2 IN
    IF l <= r
    THEN IF a[m + 1] < v THEN PutSearch(a, v, m + 1, r)
         ELSE IF a[m + 1] > v THEN PutSearch(a, v, l, m - 1)
         ELSE a
    ELSE arrins(a, l, v)

isls2d__arrsorted_put_if_absent(a, v) == PutSearch(a, v, 0, Len(a) - 1)

RECURSIVE DelSearch(_, _, _, _)
DelSearch(a, v, l, r) ==
    LET m == (l + r) \div 2 IN
    IF l <= r
    THEN IF a[m + 1] < v THEN DelSearch(a, v, m + 1, r)
         ELSE IF a[m + 1] > v THEN DelSearch(a, v, l, m - 1)
         ELSE arrdel(a, m)
    ELSE a

isls2d__arrsorted_del(a, v) == DelSearch(a, v, 0, Len(a) - 1)

\* ------------------------------------------------------------ cell helpers
\* The footprint [xmin,xmax) x [ymin,ymax) in the order the two nested for
\* loops visit it: x outer, y inner.
RECURSIVE CellSeq(_, _, _, _, _)
CellSeq(x, y, xmax, ymin, ymax) ==
    IF x >= xmax THEN <<>>
    ELSE IF y >= ymax THEN CellSeq(x + 1, ymin, xmax, ymin, ymax)
    ELSE <<(<<x, y>>)>> \o CellSeq(x, y + 1, xmax, ymin, ymax)

InArray(ents, i) == i >= 0 /\ i < Len(ents)

\* isls2d__arrsorted_put_if_absent(p, v); as a statement: the returned pointer
\* is dropped.  A NULL p stays NULL (the block arrins allocates is known only
\* to the callee); a block that exists is shifted in place, unless arrins had
\* to grow it and the allocator moved it (Moved, in the sorted-set steps).
put_if_absent_stmt(p, v) ==
    IF p = <<>> THEN p ELSE isls2d__arrsorted_put_if_absent(p, v)

\* isls2d__arrsorted_del(p, v); as a statement: arrdel never moves the block,
\* so the caller's pointer sees the deletion.
del_stmt(p, v) == isls2d__arrsorted_del(p, v)

\* Lines 169-177: the scan of a cell on insertion.  o is the entity at array
\* position i, not the entity whose id is cell_ids[i].  A position outside
\* the array touches nothing of the modelled state.
RECURSIVE InsertScan(_, _, _, _)
InsertScan(ents, id, n, i) ==
    IF i >= n THEN ents
    ELSE IF ~(InArray(ents, i) /\ InArray(ents, id)) THEN InsertScan(ents, id, n, i + 1)
    ELSE LET e == ents[id + 1]
             o == ents[i + 1]
             hit == isls2d_overlaps(e.x, e.y, e.width, e.height,
                                    o.x, o.y, o.width, o.height)
             ents1 == [ents EXCEPT ![id + 1].overlaps = put_if_absent_stmt(@, o.id)]
             ents2 == [ents1 EXCEPT ![i + 1].overlaps = put_if_absent_stmt(@, e.id)]
         IN InsertScan(IF hit THEN ents2 ELSE ents, id, n, i + 1)

\* Lines 179-180: arrput on the local cell_ids, then hmput only if n == 1.
\* With n == 0 the list is a fresh block that only the local points to, so
\* the map gets no entry; with n >= 2 the block the map already points to is
\* extended in place.
StoreCellIds(m, key, cell_ids, n, id) ==
    IF n = 1 THEN hmput(m, key, Append(cell_ids, id))
    ELSE IF n = 0 THEN m
    ELSE hmput(m, key, Append(cell_ids, id))

\* Lines 165-180: one iteration of the inner loop of the insert helper.
InsertCell(g, id, x, y, trk) ==
    LET key == ISLS2D_KEY(x, y)
        cell_ids == hmget(g.cells, key)
        n == Len(cell_ids)
    IN [cells |-> StoreCellIds(g.cells, key, cell_ids, n, id),
        entities |-> IF trk THEN InsertScan(g.entities, id, n, 0) ELSE g.entities]

RECURSIVE InsertCells(_, _, _, _)
InsertCells(g, id, cs, trk) ==
    IF cs = <<>> THEN g
    ELSE InsertCells(InsertCell(g, id, Head(cs)[1], Head(cs)[2], trk), id, Tail(cs), trk)

isls2d__insert_entity_into_cells(g, id, xmin, xmax, ymin, ymax, trk) ==
    InsertCells(g, id, CellSeq(xmin, ymin, xmax, ymin, ymax), trk)

\* Lines 191-192: the position of the first element equal to id, or -1.
RECURSIVE FindId(_, _, _)
FindId(cell_ids, id, i) ==
    IF i >= Len(cell_ids) THEN -1
    ELSE IF cell_ids[i + 1] = id THEN i
    ELSE FindId(cell_ids, id, i + 1)

\* Lines 195-201: n-1 rounds of the same two deletions; o is the entity at
\* array position i, the position id had in the cell list.
RECURSIVE RemoveScan(_, _, _, _, _)
RemoveScan(ents, id, i, n, j) ==
    IF j >= n - 1 THEN ents
    ELSE IF ~(InArray(ents, i) /\ InArray(ents, id)) THEN RemoveScan(ents, id, i, n, j + 1)
    ELSE LET e == ents[id + 1]
             o == ents[i + 1]
             ents1 == [ents EXCEPT ![id + 1].overlaps = del_stmt(@, o.id)]
             ents2 == [ents1 EXCEPT ![i + 1].overlaps = del_stmt(@, e.id)]
         IN RemoveScan(ents2, id, i, n, j + 1)

\* Lines 188-209: one iteration of the inner loop of the remove helper.
\* arrdelswap works in the block the map points to; an emptied list is freed
\* and its key deleted.
RemoveCell(g, id, x, y, trk) ==
    LET key == ISLS2D_KEY(x, y)
        cell_ids == hmget(g.cells, key)
        n == Len(cell_ids)
        i == FindId(cell_ids, id, 0)
        left == IF i >= 0 THEN arrdelswap(cell_ids, i) ELSE cell_ids
    IN [cells |-> IF Len(left) = 0 THEN hmdel(g.cells, key)
                  ELSE hmput(g.cells, key, left),
        entities |-> IF i >= 0 /\ trk THEN RemoveScan(g.entities, id, i, n, 0)
                     ELSE g.entities]

RECURSIVE RemoveCells(_, _, _, _)
RemoveCells(g, id, cs, trk) ==
    IF cs = <<>> THEN g
    ELSE RemoveCells(RemoveCell(g, id, Head(cs)[1], Head(cs)[2], trk), id, Tail(cs), trk)

isls2d__remove_entity_from_cells(g, id, xmin, xmax, ymin, ymax, trk) ==
    RemoveCells(g, id, CellSeq(xmin, ymin, xmax, ymin, ymax), trk)

\* --------------------------------------------------------------- entities
Entity(id, x, y, width, height, xmin, xmax, ymin, ymax, data, overlaps) ==
    [id |-> id, x |-> x, y |-> y, width |-> width, height |-> height,
     xmin |-> xmin, xmax |-> xmax, ymin |-> ymin, ymax |-> ymax,
     data |-> data, overlaps |-> overlaps]

\* Lines 262-264: n rounds, each deleting id from the overlap set of the
\* entity at array position i.
RECURSIVE UnlinkScan(_, _, _, _)
UnlinkScan(ents, id, n, i) ==
    IF i >= n THEN ents
    ELSE IF ~InArray(ents, i) THEN UnlinkScan(ents, id, n, i + 1)
    ELSE UnlinkScan([ents EXCEPT ![i + 1].overlaps = del_stmt(@, id)], id, n, i + 1)

\* FreeEntity without line 260: the slot keeps its id.
FreeEntity_NoTombstone(ents, pool, id) ==
    LET n == Len(ents[id + 1].overlaps)
        ents2 == UnlinkScan(ents, id, n, 0)
        ents3 == [ents2 EXCEPT ![id + 1].overlaps = <<>>]
    IN IF id = Len(ents3)
       THEN [entities |-> SubSeq(ents3, 1, Len(ents3) - 1), reusable_ids |-> pool]
       ELSE [entities |-> ents3, reusable_ids |-> Append(pool, id)]

\* Lines 260-271: the tombstone, the unlinking and the release of the id.
FreeEntity(ents, pool, id) ==
    LET ents1 == [ents EXCEPT ![id + 1].id = -1]
        n == Len(ents1[id + 1].overlaps)
        ents2 == UnlinkScan(ents1, id, n, 0)
        ents3 == [ents2 EXCEPT ![id + 1].overlaps = <<>>]
    IN IF id = Len(ents3)
       THEN [entities |-> SubSeq(ents3, 1, Len(ents3) - 1), reusable_ids |-> pool]
       ELSE [entities |-> ents3, reusable_ids |-> Append(pool, id)]

\* Lines 244-250: the slot the new record goes to.
Allocate(ents, pool, entity) ==
    IF Len(pool) > 0
    THEN LET eid == pool[Len(pool)]
         IN [id |-> eid,
             entities |-> [ents EXCEPT ![eid + 1] = [entity EXCEPT !.id = eid]],
             reusable_ids |-> SubSeq(pool, 1, Len(pool) - 1)]
    ELSE [id |-> Len(ents),
          entities |-> Append(ents, [entity EXCEPT !.id = Len(ents)]),
          reusable_ids |-> pool]

\* ------------------------------------------------------------------ init
\* isls2d_init (line 215) leaves the three containers NULL.  It takes no
\* tracking argument and its initialiser gives sh->track_overlap no value, so
\* the field is false until the host assigns it; the free name track_overlap
\* is whatever the including file defines.  Both are fixed before the first
\* operation and both values of each are modelled.
Init ==
    /\ cells = EmptyMap
    /\ entities = <<>>
    /\ reusable_ids = <<>>
    /\ sh_track_overlap \in BOOLEAN
    /\ track_overlap \in BOOLEAN
    /\ last = [op |-> "init"]

\* Nothing is modelled after a write outside the entity array.
Running == ~(last.op \in {"remove", "update"} /\ last.oob = "write")

\* What an operation found before it ran: the cell map and every slot's
\* overlap set.  Kept in last by insert (and handed on by the remove that
\* follows it) so that a round trip can be compared with its starting point.
Snapshot == [cells |-> cells,
             overlaps |-> [i \in 1..Len(entities) |-> entities[i].overlaps]]

\* ---------------------------------------------------------------- insert
\* id0 is the value of the local id, which is declared at line 238 and never
\* assigned: it is what the helper receives and what the function returns.
\* last: the slot the record went to (id), the value returned (ret), the
\* arguments (rect, data) and the snapshot (before).
isls2d_insert(x, y, width, height, data, id0) ==
    LET xmin == isls2d__floor(x, CellWidth)
        xmax == isls2d__ceil(x + width, CellWidth)
        ymin == isls2d__floor(y, CellHeight)
        ymax == isls2d__ceil(y + height, CellHeight)
        entity == Entity(-1, x, y, width, height, xmin, xmax, ymin, ymax, data, <<>>)
        a == Allocate(entities, reusable_ids, entity)
        g == isls2d__insert_entity_into_cells(
                 [cells |-> cells, entities |-> a.entities],
                 id0, xmin, xmax, ymin, ymax, track_overlap)
    IN /\ Running
       /\ Len(reusable_ids) > 0 \/ Len(entities) < MaxEnt
       /\ cells' = g.cells
       /\ entities' = g.entities
       /\ reusable_ids' = a.reusable_ids
       /\ last' = [op |-> "insert", id |-> a.id, ret |-> id0,
                   rect |-> <<x, y, width, height>>, data |-> data,
                   before |-> Snapshot]
       /\ UNCHANGED <<sh_track_overlap, track_overlap>>

\* ------------------------------------------------------- the id guards
\* last of remove and update: the id passed (id), whether the guards let it
\* through as a live id (live), what was accessed outside sh->entities (oob:
\* "none", "read" or "write"), the rectangle passed to update (rect, <<>> for
\* remove), and whether the call is a remove of the id that the insert just
\* before it returned (undo, with that insert's snapshot).
Undo(op, id) ==
    IF op = "remove" /\ last.op = "insert" /\ last.ret = id
    THEN [yes |-> TRUE, before |-> last.before]
    ELSE [yes |-> FALSE]

Done(op, id, live, oobv, rect) ==
    [op |-> op, id |-> id, live |-> live, oob |-> oobv, rect |-> rect,
     undo |-> Undo(op, id)]

\* Lines 256-258 and 275-277 for an id below zero: the test id >= arrlen lets
\* it pass and sh->entities[id] is read in front of the array.  What is read
\* there is indeterminate: either its id field differs from id (return), or
\* it equals id and the function goes on to write in front of the array.
NegativeId(op, id) ==
    /\ \E match \in BOOLEAN :
           last' = Done(op, id, FALSE, IF match THEN "write" ELSE "read", <<>>)
    /\ UNCHANGED <<cells, entities, reusable_ids, sh_track_overlap, track_overlap>>

\* The early returns of lines 256, 258, 275 and 277.
NoOp(op, id) ==
    /\ last' = Done(op, id, FALSE, "none", <<>>)
    /\ UNCHANGED <<cells, entities, reusable_ids, sh_track_overlap, track_overlap>>

\* ---------------------------------------------------------------- remove
isls2d_remove(id) ==
    /\ Running
    /\ IF id >= Len(entities) THEN NoOp("remove", id)
       ELSE IF id < 0 THEN NegativeId("remove", id)
       ELSE IF entities[id + 1].id # id THEN NoOp("remove", id)
       ELSE LET entity == entities[id + 1]
                g == isls2d__remove_entity_from_cells(
                         [cells |-> cells, entities |-> entities],
                         id, entity.xmin, entity.xmax, entity.ymin, entity.ymax,
                         track_overlap)
                f == FreeEntity(g.entities, reusable_ids, id)
            IN /\ cells' = g.cells
               /\ entities' = f.entities
               /\ reusable_ids' = f.reusable_ids
               /\ last' = Done("remove", id, TRUE, "none", <<>>)
               /\ UNCHANGED <<sh_track_overlap, track_overlap>>

\* ---------------------------------------------------------------- update
\* Lines 282-285.  The helpers run while the slot still holds the old
\* rectangle.
Relocate(g, id, entity, xmin, xmax, ymin, ymax, fieldflag, trk) ==
    IF fieldflag \/ xmin # entity.xmin \/ xmax # entity.xmax
                 \/ ymin # entity.ymin \/ ymax # entity.ymax
    THEN isls2d__insert_entity_into_cells(
             isls2d__remove_entity_from_cells(
                 g, id, entity.xmin, entity.xmax, entity.ymin, entity.ymax, trk),
             id, xmin, xmax, ymin, ymax, trk)
    ELSE g

\* UpdateLive with the record of line 286 stored at the head of the array
UpdateLive_FirstSlot(id, x, y, width, height) ==
    LET entity == entities[id + 1]
        xmin == isls2d__floor(x, CellWidth)
        xmax == isls2d__ceil(x + width, CellWidth)
        ymin == isls2d__floor(y, CellHeight)
        ymax == isls2d__ceil(y + height, CellHeight)
        g == Relocate([cells |-> cells, entities |-> entities], id, entity,
                      xmin, xmax, ymin, ymax, sh_track_overlap, track_overlap)
    IN /\ cells' = g.cells
       /\ entities' = [g.entities EXCEPT ![1] =
              Entity(entity.id, x, y, width, height, xmin, xmax, ymin, ymax,
                     entity.data, g.entities[id + 1].overlaps)]
       /\ last' = Done("update", id, TRUE, "none", <<x, y, width, height>>)
       /\ UNCHANGED <<reusable_ids, sh_track_overlap, track_overlap>>

\* Lines 278-286 for a live id.  Line 286 stores the new rectangle with the
\* overlaps pointer copied at line 276, which names the block the helpers
\* worked on.
UpdateLive(id, x, y, width, height) ==
    LET entity == entities[id + 1]
        xmin == isls2d__floor(x, CellWidth)
        xmax == isls2d__ceil(x + width, CellWidth)
        ymin == isls2d__floor(y, CellHeight)
        ymax == isls2d__ceil(y + height, CellHeight)
        g == Relocate([cells |-> cells, entities |-> entities], id, entity,
                      xmin, xmax, ymin, ymax, sh_track_overlap, track_overlap)
    IN /\ cells' = g.cells
       /\ entities' = [g.entities EXCEPT ![id + 1] =
              Entity(entity.id, x, y, width, height, xmin, xmax, ymin, ymax,
                     entity.data, g.entities[id + 1].overlaps)]
       /\ last' = Done("update", id, TRUE, "none", <<x, y, width, height>>)
       /\ UNCHANGED <<reusable_ids, sh_track_overlap, track_overlap>>

\* The rectangle is drawn only where the function gets to use it.
isls2d_update(id) ==
    /\ Running
    /\ IF id >= Len(entities) THEN NoOp("update", id)
       ELSE IF id < 0 THEN NegativeId("update", id)
       ELSE IF entities[id + 1].id # id THEN NoOp("update", id)
       ELSE \E r \in Rects : UpdateLive(id, r[1], r[2], r[3], r[4])

\* ----------------------------------------------------------------- clear
isls2d_clear ==
    /\ Running
    /\ cells' = EmptyMap
    /\ entities' = <<>>
    /\ reusable_ids' = <<>>
    /\ last' = [op |-> "clear"]
    /\ UNCHANGED <<sh_track_overlap, track_overlap>>

Insert == \E r \in Rects, d \in Datas, id0 \in GarbageIds :
              isls2d_insert(r[1], r[2], r[3], r[4], d, id0)

Remove == \E id \in IdInputs : isls2d_remove(id)

Update == \E id \in IdInputs : isls2d_update(id)

Clear == isls2d_clear

Next == Insert \/ Remove \/ Update \/ Clear

Spec == Init /\ [][Next]_vars

\* ============================================================ properties
Slots == 0..(MaxEnt - 1)

Live(ents, i) == InArray(ents, i) /\ ents[i + 1].id = i

LiveIds == { i \in Slots : Live(entities, i) }

Tracking == track_overlap /\ sh_track_overlap

Count(list, v) == Cardinality({ j \in 1..Len(list) : list[j] = v })

Elems(list) == { list[j] : j \in 1..Len(list) }

\* the strict predicate on the rectangles two records hold
Intersect(e, o) ==
    /\ e.x + e.width > o.x
    /\ o.x + o.width > e.x
    /\ e.y + e.height > o.y
    /\ o.y + o.height > e.y

Covers(e, c) == e.xmin <= c[1] /\ c[1] < e.xmax /\ e.ymin <= c[2] /\ c[2] < e.ymax

\* every cell a footprint of a rectangle of Rects can contain, and one ring
\* around them
AllCells ==
    LET xs == { r[1] : r \in Rects } \cup { r[1] + r[3] : r \in Rects }
        ys == { r[2] : r \in Rects } \cup { r[2] + r[4] : r \in Rects }
        lo(S) == CHOOSE v \in S : \A u \in S : v <= u
        hi(S) == CHOOSE v \in S : \A u \in S : v >= u
    IN { <<x, y>> : x \in (lo(xs) - CellWidth) \div CellWidth .. (hi(xs) + CellWidth) \div CellWidth,
                    y \in (lo(ys) - CellHeight) \div CellHeight .. (hi(ys) + CellHeight) \div CellHeight }

\* C1: in every reachable state, for every cell and every id the cell's list
\* holds the id exactly once if the id is a live entity whose stored footprint
\* covers the cell and not at all otherwise, and every key of the map is the
\* key of a cell with a non-empty list.
C1_CellIndex ==
    /\ \A c \in AllCells, id \in Slots :
           Count(hmget(cells, ISLS2D_KEY(c[1], c[2])), id) =
               IF Live(entities, id) /\ Covers(entities[id + 1], c) THEN 1 ELSE 0
    /\ \A k \in DOMAIN cells :
           /\ cells[k] # <<>>
           /\ \E c \in AllCells : k = ISLS2D_KEY(c[1], c[2])
           /\ Elems(cells[k]) \subseteq Slots

\* C2: with tracking enabled, any two distinct live entities whose rectangles
\* satisfy the strict predicate list each other exactly once.
C2_OverlapComplete ==
    Tracking =>
        \A a \in LiveIds, b \in LiveIds :
            (a # b /\ Intersect(entities[a + 1], entities[b + 1])) =>
                /\ Count(entities[a + 1].overlaps, b) = 1
                /\ Count(entities[b + 1].overlaps, a) = 1

\* C3: with tracking enabled, whatever an overlap set lists is a live entity
\* whose current rectangle strictly intersects the owner's.
C3_OverlapExact ==
    Tracking =>
        \A a \in Slots : InArray(entities, a) =>
            \A b \in Elems(entities[a + 1].overlaps) :
                /\ Live(entities, a)
                /\ Live(entities, b)
                /\ a # b
                /\ Intersect(entities[a + 1], entities[b + 1])

\* C4: with tracking enabled, for live a and b, b is in a's overlap set
\* exactly if a is in b's.
C4_OverlapSymmetric ==
    Tracking =>
        \A a \in LiveIds, b \in LiveIds :
            (b \in Elems(entities[a + 1].overlaps)) <=> (a \in Elems(entities[b + 1].overlaps))

\* No reachable state has a map entry or a recorded overlap: lines 179-180
\* never store the list of a cell that was empty, and lines 172-173 drop the
\* pointer put-if-absent returns.
NothingRecorded ==
    /\ cells = EmptyMap
    /\ \A i \in 1..Len(entities) : entities[i].overlaps = <<>>

LiveIn(ents) == { i \in Slots : Live(ents, i) }

RectOf(e) == <<e.x, e.y, e.width, e.height>>

FootprintOf(e) == <<e.xmin, e.xmax, e.ymin, e.ymax>>

\* the footprint section 4.1 of the documentation gives a rectangle
FootprintFor(r) ==
    <<isls2d__floor(r[1], CellWidth), isls2d__ceil(r[1] + r[3], CellWidth),
      isls2d__floor(r[2], CellHeight), isls2d__ceil(r[2] + r[4], CellHeight)>>

\* C5: a remove or an update of an id that is not live reads nothing outside
\* the entity array and changes neither the cell map, nor a record or an
\* overlap set, nor the pool.
C5_InvalidIdNoOp ==
    [][ (last'.op \in {"remove", "update"} /\ ~Live(entities, last'.id)) =>
            /\ last'.oob = "none"
            /\ UNCHANGED <<cells, entities, reusable_ids>> ]_vars

\* C6: with tracking enabled, a remove of a live id leaves the id not live,
\* in no cell list and in no other entity's overlap set, leaves no empty list
\* in the cell map, and changes the overlap sets of the removed entity's
\* recorded partners only, each of which loses exactly that id.
C6_RemoveTeardown ==
    [][ (Tracking /\ last'.op = "remove" /\ Live(entities, last'.id)) =>
            LET id == last'.id IN
            /\ ~Live(entities', id)
            /\ \A k \in DOMAIN cells' : cells'[k] # <<>> /\ Count(cells'[k], id) = 0
            /\ \A b \in Slots \ {id} : InArray(entities, b) =>
                   /\ InArray(entities', b)
                   /\ id \notin Elems(entities'[b + 1].overlaps)
                   /\ IF b \in Elems(entities[id + 1].overlaps)
                      THEN /\ Elems(entities'[b + 1].overlaps) =
                                  Elems(entities[b + 1].overlaps) \ {id}
                           /\ Len(entities'[b + 1].overlaps) =
                                  Len(entities[b + 1].overlaps) - Count(entities[b + 1].overlaps, id)
                      ELSE entities'[b + 1].overlaps = entities[b + 1].overlaps ]_vars

\* C6 witness: tracking is on and the entity just removed was live and
\* strictly intersected an entity that is still live.
C6_Witness ==
    /\ Tracking
    /\ last.op = "remove"
    /\ last.live
    /\ InArray(entities, last.id)
    /\ \E b \in LiveIds : Intersect(entities[b + 1], entities[last.id + 1])

\* C7: with tracking enabled, an update of a live id keeps the id, stores the
\* new rectangle and its footprint, leaves the entity's overlap set holding
\* exactly the other live entities that strictly intersect the new rectangle,
\* and leaves the id in the set of no entity that does not intersect it.
C7_UpdateRecomputes ==
    [][ (Tracking /\ last'.op = "update" /\ Live(entities, last'.id)) =>
            LET id == last'.id
                e == entities'[id + 1]
                partners == { b \in LiveIn(entities') \ {id} :
                                  Intersect(entities'[b + 1], e) }
            IN /\ e.id = id
               /\ RectOf(e) = last'.rect
               /\ FootprintOf(e) = FootprintFor(last'.rect)
               /\ Elems(e.overlaps) = partners
               /\ Len(e.overlaps) = Cardinality(partners)
               /\ \A b \in LiveIn(entities') \ ({id} \cup partners) :
                      id \notin Elems(entities'[b + 1].overlaps) ]_vars

\* C8: insert returns an id r whose slot then holds id r, the rectangle, its
\* footprint and the data passed; r is the id last pushed to the pool, which
\* loses it, or with an empty pool the length the array had, which grows by
\* one.
C8_InsertAllocates ==
    [][ last'.op = "insert" =>
            LET r == last'.ret IN
            /\ InArray(entities', r)
            /\ entities'[r + 1].id = r
            /\ RectOf(entities'[r + 1]) = last'.rect
            /\ FootprintOf(entities'[r + 1]) = FootprintFor(last'.rect)
            /\ entities'[r + 1].data = last'.data
            /\ IF Len(reusable_ids) > 0
               THEN /\ r = reusable_ids[Len(reusable_ids)]
                    /\ reusable_ids' = SubSeq(reusable_ids, 1, Len(reusable_ids) - 1)
                    /\ Len(entities') = Len(entities)
               ELSE /\ r = Len(entities)
                    /\ Len(entities') = Len(entities) + 1
                    /\ reusable_ids' = reusable_ids ]_vars

\* the state right after a remove of the id the insert before it returned:
\* the cell map and the other entities' overlap sets are those the insert
\* found
RoundTripRestored ==
    (last.op = "remove" /\ last.undo.yes) =>
        /\ cells = last.undo.before.cells
        /\ \A i \in 1..Len(last.undo.before.overlaps) :
               i # last.id + 1 =>
                   /\ i <= Len(entities)
                   /\ entities[i].overlaps = last.undo.before.overlaps[i]

\* C9: id = insert(r) followed at once by remove(id) restores the cell map
\* and every other entity's overlap set, and the insert after that returns
\* the same id.
C9_RoundTrip ==
    [][ /\ RoundTripRestored'
        /\ (last.op = "remove" /\ last.undo.yes /\ last'.op = "insert") =>
               last'.ret = last.id ]_vars

\* C10: clear leaves the cell map, the entity array and the pool empty, as
\* isls2d_init does, and the insert that follows a clear returns id 0 and
\* makes slot 0 live, as on a fresh grid.
C10_ClearResets ==
    [][ /\ last'.op = "clear" =>
               (cells' = EmptyMap /\ entities' = <<>> /\ reusable_ids' = <<>>)
        /\ (last.op = "clear" /\ last'.op = "insert") =>
               (last'.ret = 0 /\ Live(entities', 0)) ]_vars

\* floor and ceiling of v / c as the integers they are defined to be
MathFloor(v, c) == CHOOSE q \in (-(v * v) - 1)..(v * v + 1) : q * c <= v /\ v < (q + 1) * c

MathCeil(v, c) == CHOOSE q \in (-(v * v) - 1)..(v * v + 1) : (q - 1) * c < v /\ v <= q * c

\* C11: after an insert, and after an update of a live id, the entity's
\* stored bounds are floor(x/cellWidth), ceil((x+w)/cellWidth),
\* floor(y/cellHeight), ceil((y+h)/cellHeight), and the cells whose list holds
\* the id are exactly those of [xmin,xmax) x [ymin,ymax).
C11_Footprint ==
    (last.op = "insert" \/ (last.op = "update" /\ last.live)) =>
        LET id == last.id
            e == entities[id + 1]
            r == last.rect
        IN /\ e.xmin = MathFloor(r[1], CellWidth)
           /\ e.xmax = MathCeil(r[1] + r[3], CellWidth)
           /\ e.ymin = MathFloor(r[2], CellHeight)
           /\ e.ymax = MathCeil(r[2] + r[4], CellHeight)
           /\ { c \in AllCells : id \in Elems(hmget(cells, ISLS2D_KEY(c[1], c[2]))) }
                  = { c \in AllCells : Covers(e, c) }

\* the stored bounds alone: the part of C11 the code satisfies
StoredBounds ==
    (last.op = "insert" \/ (last.op = "update" /\ last.live)) =>
        LET e == entities[last.id + 1]
            r == last.rect
        IN /\ e.xmin = MathFloor(r[1], CellWidth)
           /\ e.xmax = MathCeil(r[1] + r[3], CellWidth)
           /\ e.ymin = MathFloor(r[2], CellHeight)
           /\ e.ymax = MathCeil(r[2] + r[4], CellHeight)

\* ---- the key macro on its documented domain ----

\* the documented limit of a cell coordinate
CoordLimit == 65535

\* coordinates at the ends of the documented range, around zero and around
\* the half-width where the product leaves the int
Coords == { -CoordLimit, -32768, -1, 0, 1, 32767, 32768, CoordLimit }

InitKey ==
    /\ cells = EmptyMap
    /\ entities = <<>>
    /\ reusable_ids = <<>>
    /\ sh_track_overlap = FALSE
    /\ track_overlap = FALSE
    /\ \E x1 \in Coords, y1 \in Coords, x2 \in Coords, y2 \in Coords :
           last = [op |-> "cells", p1 |-> <<x1, y1>>, p2 |-> <<x2, y2>>]

\* the keys of the two cells, as the helpers compute them
KeyStep ==
    /\ last.op = "cells"
    /\ last' = [op |-> "key", p1 |-> last.p1, p2 |-> last.p2,
                k1 |-> ISLS2D_KEY(last.p1[1], last.p1[2]),
                k2 |-> ISLS2D_KEY(last.p2[1], last.p2[2])]
    /\ UNCHANGED <<cells, entities, reusable_ids, sh_track_overlap, track_overlap>>

NextKey == KeyStep

SpecKey == InitKey /\ [][NextKey]_vars

\* C12: two cells whose coordinates lie in [-65535, 65535] have the same key
\* only when they are the same cell.
C12_KeyInjective ==
    last.op = "key" => (last.k1 = last.k2 => last.p1 = last.p2)

\* without the wrapped product and without a negative y the key is exact
KeyExactSmall ==
    last.op = "key" =>
        \A p \in {last.p1, last.p2} :
            (p[1] \in (-32768)..32767 /\ p[2] \in 0..CoordLimit) =>
                ISLS2D_KEY(p[1], p[2]) = p[1] * ISLS2D_XMULT + p[2]

\* ---- the id store ----

\* C13: every id in the pool is the index of a removed entity's slot and is
\* never the last index of the entity array.
C13_PoolInvariant ==
    \A k \in 1..Len(reusable_ids) :
        LET id == reusable_ids[k]
        IN /\ id \in 0..(Len(entities) - 1)
           /\ entities[id + 1].id = -1
           /\ id # Len(entities) - 1

\* the part of C13 the code keeps: a pooled id is a tombstoned slot index
PooledAreTombstones ==
    \A k \in 1..Len(reusable_ids) :
        LET id == reusable_ids[k]
        IN id \in 0..(Len(entities) - 1) /\ entities[id + 1].id = -1

\* C15: remove of a live id that is the last index of the entity array
\* shrinks the array by one and adds nothing to the pool; remove of any other
\* live id keeps the length, sets the slot's id to -1 and pushes the id onto
\* the pool.
C15_FreeOfId ==
    [][ (last'.op = "remove" /\ last'.live) =>
            LET id == last'.id
            IN IF id = Len(entities) - 1
               THEN /\ Len(entities') = Len(entities) - 1
                    /\ reusable_ids' = reusable_ids
               ELSE /\ Len(entities') = Len(entities)
                    /\ entities'[id + 1].id = -1
                    /\ reusable_ids' = Append(reusable_ids, id) ]_vars

\* what remove does to the store for every live id, the last index included
AlwaysPooled ==
    [][ (last'.op = "remove" /\ last'.live) =>
            /\ Len(entities') = Len(entities)
            /\ entities'[last'.id + 1].id = -1
            /\ reusable_ids' = Append(reusable_ids, last'.id) ]_vars

\* ---- init as written, asked for a tracking mode ----

\* Line 215: the initialiser names five of the six fields, so the sixth,
\* sh->track_overlap, is false; the function has no parameter for the mode
\* the caller wants (trackOverlap), which last keeps for comparison.
isls2d_init(trackOverlap) ==
    /\ cells = EmptyMap
    /\ entities = <<>>
    /\ reusable_ids = <<>>
    /\ sh_track_overlap = FALSE
    /\ last = [op |-> "init", requested |-> trackOverlap]

\* the free name track_overlap of lines 168 and 194 is the including file's
InitRequested ==
    /\ \E trackOverlap \in BOOLEAN : isls2d_init(trackOverlap)
    /\ track_overlap \in BOOLEAN

SpecInit == InitRequested /\ [][Next]_vars

\* C14: init(cellWidth, cellHeight, trackOverlap) yields an empty cell map,
\* no entities, an empty pool and a per-instance flag equal to trackOverlap;
\* no operation changes the flag; the helpers decide from that flag alone.
C14_InitAndFlag ==
    /\ last.op = "init" =>
           /\ cells = EmptyMap /\ entities = <<>> /\ reusable_ids = <<>>
           /\ sh_track_overlap = last.requested
    /\ track_overlap = sh_track_overlap

\* the parts of C14 the code keeps: init leaves the containers empty and no
\* operation writes either flag
FlagKept ==
    [][ /\ sh_track_overlap' = sh_track_overlap
        /\ track_overlap' = track_overlap ]_vars

InitEmpty ==
    last.op = "init" => (cells = EmptyMap /\ entities = <<>> /\ reusable_ids = <<>>)

\* ---- update without tracking ----

NoTracking == ~track_overlap /\ ~sh_track_overlap

\* the cells whose list in map m holds id
ListedIn(m, id) ==
    { c \in AllCells : id \in Elems(hmget(m, ISLS2D_KEY(c[1], c[2]))) }

\* the update of a live id, with tracking disabled, to a rectangle of the
\* same footprint: the cell map is as it was and only that entity's
\* rectangle differs
SameFootprintStep ==
    (/\ NoTracking /\ last'.op = "update" /\ last'.live
     /\ FootprintFor(last'.rect) = FootprintOf(entities[last'.id + 1])) =>
        LET id == last'.id
            r == last'.rect
        IN /\ cells' = cells
           /\ entities' = [entities EXCEPT ![id + 1] =
                  [@ EXCEPT !.x = r[1], !.y = r[2], !.width = r[3], !.height = r[4]]]

\* the same to a rectangle of another footprint: the id is listed in exactly
\* the cells of the new footprint
NewFootprintStep ==
    (/\ NoTracking /\ last'.op = "update" /\ last'.live
     /\ FootprintFor(last'.rect) # FootprintOf(entities[last'.id + 1])) =>
        LET id == last'.id
        IN ListedIn(cells', id) = { c \in AllCells : Covers(entities'[id + 1], c) }

\* C16: with tracking disabled, an update of a live id to the same footprint
\* leaves the cell map unchanged and changes only that entity's rectangle;
\* to a different footprint, it leaves the id listed in exactly the cells of
\* the new footprint and in none that belong only to the old one.
C16_UpdateNoTracking == [][SameFootprintStep /\ NewFootprintStep]_vars

\* the half of C16 the code keeps
SameFootprintKept == [][SameFootprintStep]_vars

\* ---- the sorted-set primitives on their domain ----

\* the values an overlap set can be asked to hold: the ids and the tombstone
SetVals == (-1)..MaxEnt

\* the ascending duplicate-free sequence of the elements of S
RECURSIVE SortedSeq(_)
SortedSeq(S) ==
    IF S = {} THEN <<>>
    ELSE LET lo == CHOOSE v \in S : \A u \in S : v <= u
         IN <<lo>> \o SortedSeq(S \ {lo})

Ascending(s) == \A i \in 1..Len(s), j \in 1..Len(s) : i < j => s[i] < s[j]

InitSorted ==
    /\ cells = EmptyMap
    /\ entities = <<>>
    /\ reusable_ids = <<>>
    /\ sh_track_overlap = FALSE
    /\ track_overlap = FALSE
    /\ \E S \in SUBSET SetVals, v \in SetVals :
           last = [op |-> "set", a |-> SortedSeq(S), v |-> v]

\* Lines 172-173: the call as the helper makes it.  result is what the
\* function returns, held what the caller's set holds afterwards.  When the
\* value is inserted into an existing block, arrins may have to grow it and
\* the allocator may move it: the caller's pointer then dangles.
PutStep ==
    /\ last.op = "set"
    /\ \E Moved \in BOOLEAN :
           last' = [op |-> "put", a |-> last.a, v |-> last.v,
                    result |-> isls2d__arrsorted_put_if_absent(last.a, last.v),
                    held |-> put_if_absent_stmt(last.a, last.v),
                    dangling |-> /\ Moved
                                 /\ last.a # <<>>
                                 /\ isls2d__arrsorted_put_if_absent(last.a, last.v) # last.a]
    /\ UNCHANGED <<cells, entities, reusable_ids, sh_track_overlap, track_overlap>>

\* Lines 197-198: the same for the deletion, which works in place.
DelStep ==
    /\ last.op = "set"
    /\ last' = [op |-> "del", a |-> last.a, v |-> last.v,
                result |-> isls2d__arrsorted_del(last.a, last.v),
                held |-> del_stmt(last.a, last.v),
                dangling |-> FALSE]
    /\ UNCHANGED <<cells, entities, reusable_ids, sh_track_overlap, track_overlap>>

NextSorted == PutStep \/ DelStep

SpecSorted == InitSorted /\ [][NextSorted]_vars

\* what the two functions return, for an ascending duplicate-free a
SortedResults ==
    /\ last.op = "put" =>
           /\ Ascending(last.result)
           /\ Elems(last.result) = Elems(last.a) \cup {last.v}
           /\ (last.v \in Elems(last.a) => last.result = last.a)
    /\ last.op = "del" =>
           /\ Ascending(last.result)
           /\ Elems(last.result) = Elems(last.a) \ {last.v}
           /\ (last.v \notin Elems(last.a) => last.result = last.a)

\* C17: put-if-absent(a, v) and delete(a, v) on an ascending duplicate-free
\* a yield the ascending duplicate-free sequence of a's elements plus v,
\* respectively minus v (a itself when nothing changes), and the caller's
\* overlap set holds that result after the call.
C17_SortedSet ==
    /\ SortedResults
    /\ last.op \in {"put", "del"} => (~last.dangling /\ last.held = last.result)

\* the consequence C17 draws, in the states the operations reach
OverlapSetsAscending ==
    \A i \in 1..Len(entities) : Ascending(entities[i].overlaps)

\* ---- the id store, continued ----

\* every slot holds its own index or the tombstone, the pool holds no id
\* twice, and every pooled id is a tombstoned slot index below the length
IdStoreOK ==
    /\ \A i \in 0..(Len(entities) - 1) : entities[i + 1].id \in {i, -1}
    /\ \A j \in 1..Len(reusable_ids), k \in 1..Len(reusable_ids) :
           j # k => reusable_ids[j] # reusable_ids[k]
    /\ PooledAreTombstones

\* the slot an insert fills held no live entity
FreshSlot == [][ last'.op = "insert" => ~Live(entities, last'.id) ]_vars

\* C18: under any sequence of insert, update and remove (a repeated remove
\* of one id included) every slot i holds id i or -1, the pool holds no id
\* twice, every pooled id is a tombstoned slot index below the array length,
\* and insert never returns the id of an entity that is live.
C18_IdStore ==
    [][ /\ IdStoreOK'
        /\ last'.op = "insert" => ~Live(entities, last'.ret) ]_vars

\* C19: with tracking enabled, no overlap set holds its owner's id, the
\* tombstone -1, or the id of a slot that is not live.
C19_OverlapMembers ==
    Tracking =>
        \A a \in 0..(Len(entities) - 1) :
            \A b \in Elems(entities[a + 1].overlaps) :
                b # a /\ b # -1 /\ Live(entities, b)

\* ---- the frame of an operation ----

\* the entity an insert, update or remove step operates on: the slot the
\* insert fills, the live id passed to update or remove, none (-1) when the
\* guards turn the id away
Operated(l) ==
    IF l.op = "insert" THEN l.id
    ELSE IF l.op \in {"update", "remove"} /\ l.live THEN l.id
    ELSE -1

\* what an operation must leave alone in the record of another entity
Fixed(e) == <<e.id, RectOf(e), FootprintOf(e), e.data>>

====
